---- MODULE Spec2Model ----
(***************************************************************************)
(* inventory_kit: the in-memory inventory repository                       *)
(* (src/src/in_memory.rs), its time-range validator (src/src/utils.rs)     *)
(* and a caller that issues one call at a time through &mut self.          *)
(***************************************************************************)
EXTENDS Integers, Sequences, FiniteSets, TLC

\* ---------------------------------------------------------------- bounds
\* Slots held by the whole store (insert_availability stops there).
MaxSlots == 2
\* Largest quantity a caller passes; calls are followed while every
\* available count is at most MaxQty.
MaxQty == 1
\* Longest batch handed to reserve_many.
MaxBatch == 2

\* available is a u32: counts are kept modulo 2^32 in the code. The model
\* keeps them modulo CounterMod, the same wrap-around on a narrower counter
\* (TLC's integers stop below 2^32).
CounterMod == 16

\* ------------------------------------------------------ program constants
\* validate_time_range: "Time must be less than 2400".
ClockLimit == 2400

\* ------------------------------------------------------------ input sets
Items == {1, 2}
\* <<start, end>>: two well-formed ranges, one with end <= start, one with
\* end >= 2400.
SlotRanges == {<<1000, 1100>>, <<1100, 1200>>, <<1100, 1000>>, <<1200, 2400>>}
QueryRanges == SlotRanges \cup {<<1000, 1200>>}
QtyIn == 0..MaxQty
BatchRanges == {<<1000, 1100>>, <<1100, 1200>>}
\* The two largest quantities a request carries.
BatchQty == (MaxQty - 1)..MaxQty
Requests == {<<r[1], r[2], q>> : r \in BatchRanges, q \in BatchQty}

RECURSIVE SeqsUpTo(_, _)
SeqsUpTo(S, n) ==
  IF n = 0 THEN {<<>>}
  ELSE LET shorter == SeqsUpTo(S, n - 1)
       IN shorter \cup {Append(s, x) : s \in {t \in shorter : Len(t) = n - 1}, x \in S}

Batches == SeqsUpTo(Requests, MaxBatch)

\* ----------------------------------------------------------------- state
VARIABLES
  storage,  \* HashMap<Item::Id, Vec<AvailabilitySlot>>: a function on the known ids
  op,       \* the call whose result the caller holds; "none" between calls
  arg,      \* that call's arguments
  pre,      \* storage when that call started
  res,      \* what it returned: "Ok", an InventoryError kind, or "Panic"
  ret,      \* the Vec get_availability returned
  exclusive, \* TRUE: a call holds the store from its first step to its last (&mut self)
  call      \* per caller, where its reserve_many stands between its two loops

vars == <<storage, op, arg, pre, res, ret, exclusive, call>>

NoArg == [item_id |-> 0, from |-> 0, to |-> 0, quantity |-> 0, slots |-> <<>>]

AvailabilitySlot(item_id, start, end, available) ==
  [item_id |-> item_id, start |-> start, end |-> end, available |-> available]

\* ------------------------------------------------------------- utils.rs
\* A validator that lets an empty range through (< for <=).
validate_time_range_lt(start_time, end_time) ==
  IF end_time < start_time THEN "InvalidTimeRange"
  ELSE IF end_time >= ClockLimit THEN "Internal"
  ELSE "Ok"

validate_time_range(start_time, end_time) ==
  IF end_time <= start_time THEN "InvalidTimeRange"
  ELSE IF end_time >= ClockLimit THEN "Internal"
  ELSE "Ok"

\* --------------------------------------------------------- in_memory.rs
\* A lookup that resolves to the last match instead of the first.
position_last(slots, from, to) ==
  LET hits == {k \in 1..Len(slots) : slots[k].start = from /\ slots[k].end = to}
  IN IF hits = {} THEN 0 ELSE CHOOSE k \in hits : \A j \in hits : k >= j

\* iter().position(|s| s.start == from && s.end == to): the first match, 0 for None.
position(slots, from, to) ==
  LET hits == {k \in 1..Len(slots) : slots[k].start = from /\ slots[k].end = to}
  IN IF hits = {} THEN 0 ELSE CHOOSE k \in hits : \A j \in hits : k <= j

\* A lookup that compares the start alone.
find_slot_mut_start_only(st, item_id, from, to) ==
  IF item_id \notin DOMAIN st THEN 0
  ELSE LET slots == st[item_id]
           hits == {k \in 1..Len(slots) : slots[k].start = from}
       IN IF hits = {} THEN 0 ELSE CHOOSE k \in hits : \A j \in hits : k <= j

\* find_slot_mut: None (0) when the item is unknown or no slot matches exactly.
find_slot_mut(st, item_id, from, to) ==
  IF item_id \notin DOMAIN st THEN 0 ELSE position(st[item_id], from, to)

\* A write that lands on every slot of the item instead of slot k alone.
SetAvailable_all(st, item_id, k, v) ==
  [st EXCEPT ![item_id] = [n \in 1..Len(@) |-> [@[n] EXCEPT !.available = v]]]

\* The store with slot k of item_id holding v.
SetAvailable(st, item_id, k, v) ==
  [st EXCEPT ![item_id] = [@ EXCEPT ![k] = [@ EXCEPT !.available = v]]]

Outcome(r, st) == [res |-> r, storage |-> st]

InsertStore(st, item_id, from, to, quantity) ==
  LET old == IF item_id \in DOMAIN st THEN st[item_id] ELSE <<>>
  IN [i \in DOMAIN st \cup {item_id} |->
        IF i = item_id
        THEN Append(old, AvailabilitySlot(item_id, from, to, quantity))
        ELSE st[i]]

\* A query that forgets the upper bound of the containment test.
GetAvailability_no_upper(st, item_id, from, to) ==
  LET v == validate_time_range(from, to)
  IN IF v # "Ok" THEN [res |-> v, ret |-> <<>>]
     ELSE IF item_id \notin DOMAIN st THEN [res |-> "NotFound", ret |-> <<>>]
     ELSE [res |-> "Ok", ret |-> SelectSeq(st[item_id], LAMBDA s : s.start >= from)]

\* A query whose upper bound is exclusive.
GetAvailability_exclusive(st, item_id, from, to) ==
  LET v == validate_time_range(from, to)
  IN IF v # "Ok" THEN [res |-> v, ret |-> <<>>]
     ELSE IF item_id \notin DOMAIN st THEN [res |-> "NotFound", ret |-> <<>>]
     ELSE [res |-> "Ok",
           ret |-> SelectSeq(st[item_id], LAMBDA s : s.start >= from /\ s.end < to)]

\* A query that answers an unknown item with an empty list.
GetAvailability_default(st, item_id, from, to) ==
  LET v == validate_time_range(from, to)
  IN IF v # "Ok" THEN [res |-> v, ret |-> <<>>]
     ELSE IF item_id \notin DOMAIN st THEN [res |-> "Ok", ret |-> <<>>]
     ELSE [res |-> "Ok",
           ret |-> SelectSeq(st[item_id], LAMBDA s : s.start >= from /\ s.end <= to)]

GetAvailability(st, item_id, from, to) ==
  LET v == validate_time_range(from, to)
  IN IF v # "Ok" THEN [res |-> v, ret |-> <<>>]
     ELSE IF item_id \notin DOMAIN st THEN [res |-> "NotFound", ret |-> <<>>]
     ELSE [res |-> "Ok",
           ret |-> SelectSeq(st[item_id], LAMBDA s : s.start >= from /\ s.end <= to)]

\* A reserve that refuses to take the last units (<= for <).
ReserveOutcome_le(st, item_id, from, to, quantity) ==
  LET v == validate_time_range(from, to)
      k == find_slot_mut(st, item_id, from, to)
  IN IF v # "Ok" THEN Outcome(v, st)
     ELSE IF k = 0 THEN Outcome("NotFound", st)
     ELSE IF st[item_id][k].available <= quantity THEN Outcome("Insufficient", st)
     ELSE Outcome("Ok", SetAvailable(st, item_id, k, st[item_id][k].available - quantity))

\* A reserve that hands out what is left instead of refusing.
ReserveOutcome_saturating(st, item_id, from, to, quantity) ==
  LET v == validate_time_range(from, to)
      k == find_slot_mut(st, item_id, from, to)
  IN IF v # "Ok" THEN Outcome(v, st)
     ELSE IF k = 0 THEN Outcome("NotFound", st)
     ELSE IF st[item_id][k].available < quantity
     THEN Outcome("Ok", SetAvailable(st, item_id, k, 0))
     ELSE Outcome("Ok", SetAvailable(st, item_id, k, st[item_id][k].available - quantity))

ReserveOutcome(st, item_id, from, to, quantity) ==
  LET v == validate_time_range(from, to)
      k == find_slot_mut(st, item_id, from, to)
  IN IF v # "Ok" THEN Outcome(v, st)
     ELSE IF k = 0 THEN Outcome("NotFound", st)
     ELSE IF st[item_id][k].available < quantity THEN Outcome("Insufficient", st)
     ELSE Outcome("Ok", SetAvailable(st, item_id, k, st[item_id][k].available - quantity))

\* slot.available += quantity: on u32 overflow a build with overflow checks
\* panics before the store, a build without them wraps.
ReleaseOutcomes(st, item_id, from, to, quantity) ==
  LET k == find_slot_mut(st, item_id, from, to)
  IN IF k = 0 THEN {Outcome("NotFound", st)}
     ELSE LET sum == st[item_id][k].available + quantity
          IN IF sum < CounterMod
             THEN {Outcome("Ok", SetAvailable(st, item_id, k, sum))}
             ELSE {Outcome("Panic", st),
                   Outcome("Ok", SetAvailable(st, item_id, k, sum % CounterMod))}

\* An adjust that adds the quantity instead of setting it.
AdjustOutcome_delta(st, item_id, from, to, new_quantity) ==
  LET k == find_slot_mut(st, item_id, from, to)
  IN IF k = 0 THEN Outcome("NotFound", st)
     ELSE Outcome("Ok", SetAvailable(st, item_id, k,
                                     (st[item_id][k].available + new_quantity) % CounterMod))

AdjustOutcome(st, item_id, from, to, new_quantity) ==
  LET k == find_slot_mut(st, item_id, from, to)
  IN IF k = 0 THEN Outcome("NotFound", st)
     ELSE Outcome("Ok", SetAvailable(st, item_id, k, new_quantity))

\* A validation loop that keeps a running total: it checks each request
\* against the count less what earlier requests of the batch took.
RECURSIVE ValidateFrom_running(_, _, _, _)
ValidateFrom_running(slots, requests, k, targets) ==
  IF k > Len(requests) THEN [res |-> "Ok", targets |-> targets]
  ELSE LET index == position(slots, requests[k][1], requests[k][2])
       IN IF index = 0 THEN [res |-> "NotFound", targets |-> targets]
          ELSE IF slots[index].available < requests[k][3]
          THEN [res |-> "Insufficient", targets |-> targets]
          ELSE ValidateFrom_running(
                 [slots EXCEPT ![index] = [@ EXCEPT !.available = @ - requests[k][3]]],
                 requests, k + 1, Append(targets, <<index, requests[k][3]>>))

\* A validation that resolves every request first and compares the
\* quantities only afterwards.
ValidateFrom_resolve_first(slots, requests, k, targets) ==
  IF \E j \in k..Len(requests) : position(slots, requests[j][1], requests[j][2]) = 0
  THEN [res |-> "NotFound", targets |-> targets]
  ELSE IF \E j \in k..Len(requests) :
            slots[position(slots, requests[j][1], requests[j][2])].available < requests[j][3]
  THEN [res |-> "Insufficient", targets |-> targets]
  ELSE [res |-> "Ok",
        targets |-> [j \in 1..Len(requests) |->
                       <<position(slots, requests[j][1], requests[j][2]), requests[j][3]>>]]

\* reserve_many, validation phase (the first loop), from request k on:
\* the first failing request decides the error, nothing is written.
RECURSIVE ValidateFrom(_, _, _, _)
ValidateFrom(slots, requests, k, targets) ==
  IF k > Len(requests) THEN [res |-> "Ok", targets |-> targets]
  ELSE LET index == position(slots, requests[k][1], requests[k][2])
       IN IF index = 0 THEN [res |-> "NotFound", targets |-> targets]
          ELSE IF slots[index].available < requests[k][3]
          THEN [res |-> "Insufficient", targets |-> targets]
          ELSE ValidateFrom(slots, requests, k + 1,
                            Append(targets, <<index, requests[k][3]>>))

\* A commit loop that stops one target early.
RECURSIVE CommitFrom_short(_, _, _, _)
CommitFrom_short(slots, targets, k, overflow_checks) ==
  IF k >= Len(targets) THEN [res |-> "Ok", slots |-> slots]
  ELSE LET index == targets[k][1]
           qty == targets[k][2]
           a == slots[index].available
       IN IF a < qty /\ overflow_checks THEN [res |-> "Panic", slots |-> slots]
          ELSE CommitFrom_short([slots EXCEPT ![index] = [@ EXCEPT !.available = (a + CounterMod - qty) % CounterMod]],
                                targets, k + 1, overflow_checks)

\* reserve_many, commit phase (the second loop), from target k on.
\* storage[index].available -= qty: on u32 underflow a build with overflow
\* checks panics, leaving the subtractions already made; a build without
\* them wraps.
RECURSIVE CommitFrom(_, _, _, _)
CommitFrom(slots, targets, k, overflow_checks) ==
  IF k > Len(targets) THEN [res |-> "Ok", slots |-> slots]
  ELSE LET index == targets[k][1]
           qty == targets[k][2]
           a == slots[index].available
       IN IF a < qty /\ overflow_checks THEN [res |-> "Panic", slots |-> slots]
          ELSE CommitFrom([slots EXCEPT ![index] = [@ EXCEPT !.available = (a + CounterMod - qty) % CounterMod]],
                          targets, k + 1, overflow_checks)

\* A batch that reserves request by request, writing as it goes.
RECURSIVE OnePass(_, _, _)
OnePass(slots, requests, k) ==
  IF k > Len(requests) THEN [res |-> "Ok", slots |-> slots]
  ELSE LET index == position(slots, requests[k][1], requests[k][2])
       IN IF index = 0 THEN [res |-> "NotFound", slots |-> slots]
          ELSE IF slots[index].available < requests[k][3]
          THEN [res |-> "Insufficient", slots |-> slots]
          ELSE OnePass([slots EXCEPT ![index] = [@ EXCEPT !.available = @ - requests[k][3]]],
                       requests, k + 1)

ReserveManyOutcomes_one_pass(st, item_id, requests) ==
  IF item_id \notin DOMAIN st THEN {Outcome("NotFound", st)}
  ELSE LET c == OnePass(st[item_id], requests, 1)
       IN {Outcome(c.res, [st EXCEPT ![item_id] = c.slots])}

ReserveManyOutcomes(st, item_id, requests) ==
  IF item_id \notin DOMAIN st THEN {Outcome("NotFound", st)}
  ELSE LET v == ValidateFrom(st[item_id], requests, 1, <<>>)
       IN IF v.res # "Ok" THEN {Outcome(v.res, st)}
          ELSE {LET c == CommitFrom(st[item_id], v.targets, 1, checks)
                IN Outcome(c.res, [st EXCEPT ![item_id] = c.slots]) : checks \in BOOLEAN}

\* --------------------------------------------------------------- caller
TotalSlots(st) ==
  LET RECURSIVE Sum(_)
      Sum(S) == IF S = {} THEN 0
                ELSE LET i == CHOOSE x \in S : TRUE IN Len(st[i]) + Sum(S \ {i})
  IN Sum(DOMAIN st)

\* The caller issues a call only between calls, and only while every counter
\* is in the followed range.
CanCall ==
  /\ op = "none"
  /\ \A i \in DOMAIN storage : \A k \in 1..Len(storage[i]) :
        storage[i][k].available <= MaxQty

\* A caller of reserve_many: idle, between the two loops ("validated", with
\* the targets the first loop collected), or unwound by a panic.
Callers == {1, 2}

IdleCall ==
  [pc |-> "idle", item_id |-> 0, targets |-> <<>>, dup |-> FALSE, over |-> FALSE, res |-> "Ok"]

Called(name, a, out, returned) ==
  /\ UNCHANGED <<exclusive, call>>
  /\ op' = name
  /\ arg' = a
  /\ pre' = storage
  /\ storage' = out.storage
  /\ res' = out.res
  /\ ret' = returned

Init ==
  /\ storage = <<>>
  /\ op = "none"
  /\ arg = NoArg
  /\ pre = <<>>
  /\ res = "Ok"
  /\ ret = <<>>
  /\ exclusive = TRUE
  /\ call = [c \in Callers |-> IdleCall]

insert_availability(item_id, from, to, quantity) ==
  /\ CanCall
  /\ TotalSlots(storage) < MaxSlots
  /\ Called("insert_availability",
            [NoArg EXCEPT !.item_id = item_id, !.from = from, !.to = to, !.quantity = quantity],
            Outcome("Ok", InsertStore(storage, item_id, from, to, quantity)), <<>>)

get_availability(item_id, from, to) ==
  /\ CanCall
  /\ LET g == GetAvailability(storage, item_id, from, to)
     IN Called("get_availability",
               [NoArg EXCEPT !.item_id = item_id, !.from = from, !.to = to],
               Outcome(g.res, storage), g.ret)

reserve(item_id, from, to, quantity) ==
  /\ CanCall
  /\ Called("reserve",
            [NoArg EXCEPT !.item_id = item_id, !.from = from, !.to = to, !.quantity = quantity],
            ReserveOutcome(storage, item_id, from, to, quantity), <<>>)

release(item_id, from, to, quantity) ==
  /\ CanCall
  /\ \E out \in ReleaseOutcomes(storage, item_id, from, to, quantity) :
       Called("release",
              [NoArg EXCEPT !.item_id = item_id, !.from = from, !.to = to, !.quantity = quantity],
              out, <<>>)

adjust(item_id, from, to, new_quantity) ==
  /\ CanCall
  /\ Called("adjust",
            [NoArg EXCEPT !.item_id = item_id, !.from = from, !.to = to, !.quantity = new_quantity],
            AdjustOutcome(storage, item_id, from, to, new_quantity), <<>>)

reserve_many(item_id, slots) ==
  /\ CanCall
  /\ \E out \in ReserveManyOutcomes(storage, item_id, slots) :
       Called("reserve_many",
              [NoArg EXCEPT !.item_id = item_id, !.slots = slots],
              out, <<>>)

\* The caller takes the Result and is ready for its next call; a panic
\* unwinds the caller instead.
Return ==
  /\ op # "none"
  /\ res # "Panic"
  /\ op' = "none"
  /\ arg' = NoArg
  /\ pre' = <<>>
  /\ res' = "Ok"
  /\ ret' = <<>>
  /\ UNCHANGED <<storage, exclusive, call>>

Next ==
  \/ \E item_id \in Items, r \in SlotRanges, q \in QtyIn :
       insert_availability(item_id, r[1], r[2], q)
  \/ \E item_id \in Items, r \in QueryRanges :
       get_availability(item_id, r[1], r[2])
  \/ \E item_id \in Items, r \in SlotRanges, q \in QtyIn :
       reserve(item_id, r[1], r[2], q)
  \/ \E item_id \in Items, r \in SlotRanges, q \in QtyIn :
       release(item_id, r[1], r[2], q)
  \/ \E item_id \in Items, r \in SlotRanges, q \in QtyIn :
       adjust(item_id, r[1], r[2], q)
  \/ \E item_id \in Items, b \in Batches :
       reserve_many(item_id, b)
  \/ Return

Spec == Init /\ [][Next]_vars

\* ------------------------------------- quantities over the whole counter
\* The caller's quantities and the largest value of the counter (u32::MAX).
WideQty == QtyIn \cup {CounterMod - 1}

NextWide ==
  \/ \E item_id \in Items, r \in SlotRanges, q \in WideQty :
       insert_availability(item_id, r[1], r[2], q)
  \/ \E item_id \in Items, r \in QueryRanges :
       get_availability(item_id, r[1], r[2])
  \/ \E item_id \in Items, r \in SlotRanges, q \in WideQty :
       reserve(item_id, r[1], r[2], q)
  \/ \E item_id \in Items, r \in SlotRanges, q \in WideQty :
       release(item_id, r[1], r[2], q)
  \/ \E item_id \in Items, r \in SlotRanges, q \in WideQty :
       adjust(item_id, r[1], r[2], q)
  \/ \E item_id \in Items, b \in Batches :
       reserve_many(item_id, b)
  \/ Return

SpecWide == Init /\ [][NextWide]_vars

\* ------------------------------------------- the validator on its own
\* Clock values around the validator's two comparisons.
TimeVals == {0, 1, 900, 1200, 1400, 1500, 2399, 2400, 2401, 2500, 4000}

\* A direct call of utils::validate_time_range; it takes no repository.
ValidateTimeRange(start_time, end_time) ==
  /\ op' = "validate_time_range"
  /\ arg' = [NoArg EXCEPT !.from = start_time, !.to = end_time]
  /\ pre' = storage
  /\ res' = validate_time_range(start_time, end_time)
  /\ ret' = <<>>
  /\ UNCHANGED <<storage, exclusive, call>>

NextValidate ==
  \E start_time \in TimeVals, end_time \in TimeVals :
    ValidateTimeRange(start_time, end_time)

SpecValidate == Init /\ [][NextValidate]_vars

\* ------------------------------------------------- callers side by side
\* reserve_many as its two loops, one step each, issued by several callers.
\* With exclusive = TRUE a caller starts only when no other call is between
\* its loops, which is what the &mut self receiver enforces; with
\* exclusive = FALSE other calls may run between the two loops.

\* Two requests of the batch name the same (start, end).
HasDuplicate(requests) ==
  \E i, j \in 1..Len(requests) :
    i # j /\ requests[i][1] = requests[j][1] /\ requests[i][2] = requests[j][2]

\* The second loop, run on slots, meets a subtraction larger than the count.
Underflows(slots, targets) == CommitFrom(slots, targets, 1, TRUE).res = "Panic"

\* The stores the callers share: one item, a slot for each batch range.
CallerStores ==
  {[i \in {1} |-> <<AvailabilitySlot(1, 1000, 1100, a), AvailabilitySlot(1, 1100, 1200, b)>>] :
     a, b \in QtyIn}

\* A caller that takes its turn without waiting for the call in flight.
MayStart_unguarded(c) ==
  /\ CanCall
  /\ call[c].pc = "idle"

\* A caller can borrow the store mutably: it is not in a call, and under
\* exclusive access no other caller is between the loops of its call.
MayStart(c) ==
  /\ CanCall
  /\ call[c].pc = "idle"
  /\ exclusive => \A d \in Callers : call[d].pc # "validated"

InitCallers ==
  /\ storage \in CallerStores
  /\ op = "none"
  /\ arg = NoArg
  /\ pre = <<>>
  /\ res = "Ok"
  /\ ret = <<>>
  /\ exclusive \in BOOLEAN
  /\ call = [c \in Callers |-> IdleCall]

\* reserve, start to end in one step.
CallerReserve(c, item_id, from, to, quantity) ==
  /\ MayStart(c)
  /\ LET out == ReserveOutcome(storage, item_id, from, to, quantity)
     IN /\ storage' = out.storage
        /\ call' = [call EXCEPT ![c] = [IdleCall EXCEPT !.item_id = item_id, !.res = out.res]]
  /\ UNCHANGED <<op, arg, pre, res, ret, exclusive>>

\* reserve_many up to the end of its first loop.
CallerValidate(c, item_id, requests) ==
  /\ MayStart(c)
  /\ LET started == [IdleCall EXCEPT !.item_id = item_id, !.dup = HasDuplicate(requests)]
     IN call' = [call EXCEPT ![c] =
          IF item_id \notin DOMAIN storage THEN [started EXCEPT !.res = "NotFound"]
          ELSE LET v == ValidateFrom(storage[item_id], requests, 1, <<>>)
               IN IF v.res # "Ok" THEN [started EXCEPT !.res = v.res]
                  ELSE [started EXCEPT !.pc = "validated", !.targets = v.targets]]
  /\ UNCHANGED <<storage, op, arg, pre, res, ret, exclusive>>

\* reserve_many's second loop and return, on the store as it is by then.
CallerCommit(c) ==
  /\ call[c].pc = "validated"
  /\ \E overflow_checks \in BOOLEAN :
       LET slots == storage[call[c].item_id]
           out == CommitFrom(slots, call[c].targets, 1, overflow_checks)
       IN /\ storage' = [storage EXCEPT ![call[c].item_id] = out.slots]
          /\ call' = [call EXCEPT ![c] =
               [@ EXCEPT !.pc = IF out.res = "Panic" THEN "panicked" ELSE "idle",
                         !.targets = <<>>,
                         !.over = Underflows(slots, call[c].targets),
                         !.res = out.res]]
  /\ UNCHANGED <<op, arg, pre, res, ret, exclusive>>

NextCallers ==
  \/ \E c \in Callers, item_id \in Items, r \in BatchRanges, q \in QtyIn :
       CallerReserve(c, item_id, r[1], r[2], q)
  \/ \E c \in Callers, item_id \in Items, b \in Batches :
       CallerValidate(c, item_id, b)
  \/ \E c \in Callers : CallerCommit(c)

SpecCallers == InitCallers /\ [][NextCallers]_vars

\* ======================================================== properties
\* Vocabulary of the properties, stated on the recorded call (op, arg, pre,
\* res, ret) and the store after it, without the operators above.

\* The positions of item_id's slots in st whose range is exactly (from, to).
ExactMatches(st, item_id, from, to) ==
  IF item_id \notin DOMAIN st THEN {}
  ELSE {k \in 1..Len(st[item_id]) :
          st[item_id][k].start = from /\ st[item_id][k].end = to}

\* The slot exact-match lookup resolves to: the earliest inserted match.
ExactSlot(st, item_id, from, to) ==
  CHOOSE k \in ExactMatches(st, item_id, from, to) :
    \A j \in ExactMatches(st, item_id, from, to) : k <= j

WellFormed(from, to) == from < to /\ to < ClockLimit

\* st2 is st1 but for the available count of slot k of item_id.
SameExceptAvailable(st1, st2, item_id, k) ==
  /\ DOMAIN st1 = DOMAIN st2
  /\ \A i \in DOMAIN st1 :
       /\ Len(st1[i]) = Len(st2[i])
       /\ \A n \in 1..Len(st1[i]) :
            /\ st1[i][n].item_id = st2[i][n].item_id
            /\ st1[i][n].start = st2[i][n].start
            /\ st1[i][n].end = st2[i][n].end
            /\ (i # item_id \/ n # k) => st1[i][n].available = st2[i][n].available

\* The slot position request j of the recorded batch resolves to (0: none).
Target(j) ==
  IF ExactMatches(pre, arg.item_id, arg.slots[j][1], arg.slots[j][2]) = {} THEN 0
  ELSE ExactSlot(pre, arg.item_id, arg.slots[j][1], arg.slots[j][2])

\* Every request of the recorded batch names an existing exact slot and asks
\* for no more than it held before the batch.
EachSatisfiable ==
  /\ arg.item_id \in DOMAIN pre
  /\ \A j \in 1..Len(arg.slots) :
       /\ Target(j) # 0
       /\ arg.slots[j][3] <= pre[arg.item_id][Target(j)].available

NoSharedTarget ==
  \A i, j \in 1..Len(arg.slots) : i # j => Target(i) # Target(j)

\* What the recorded batch asks of slot k, when no two requests share a slot.
Asked(k) ==
  IF \E j \in 1..Len(arg.slots) : Target(j) = k
  THEN arg.slots[CHOOSE j \in 1..Len(arg.slots) : Target(j) = k][3]
  ELSE 0

\* C1: a reserve_many that returns an error (NotFound or Insufficient) leaves
\* every slot of the store as it was before the call, the slots of the
\* requests before the failing one included.
C1_AllOrNothingOnFailure ==
  (op = "reserve_many" /\ res \in {"NotFound", "Insufficient"}) => storage = pre

\* C1 witness: a two-request batch failed at its second request, after a
\* first request that asked for units its slot held.
C1_Witness ==
  /\ op = "reserve_many"
  /\ res = "Insufficient"
  /\ Len(arg.slots) = 2
  /\ Target(1) # 0
  /\ arg.slots[1][3] > 0
  /\ arg.slots[1][3] <= pre[arg.item_id][Target(1)].available
  /\ Target(2) # 0
  /\ Target(2) # Target(1)

\* C2: a batch whose requests are each satisfiable against the pre-batch
\* store and target pairwise different slots returns Ok, takes exactly each
\* request's quantity from its slot and changes nothing else.
C2_BatchSuccessEffect ==
  (op = "reserve_many" /\ EachSatisfiable /\ NoSharedTarget) =>
    /\ res = "Ok"
    /\ DOMAIN storage = DOMAIN pre
    /\ \A i \in DOMAIN pre :
         /\ Len(storage[i]) = Len(pre[i])
         /\ \A k \in 1..Len(pre[i]) :
              storage[i][k] =
                IF i = arg.item_id
                THEN [pre[i][k] EXCEPT !.available = @ - Asked(k)]
                ELSE pre[i][k]

\* C2 witness: a batch of two requests on two different slots, both taking
\* units, went through.
C2_Witness ==
  /\ op = "reserve_many"
  /\ EachSatisfiable
  /\ NoSharedTarget
  /\ Len(arg.slots) = 2
  /\ arg.slots[1][3] > 0
  /\ arg.slots[2][3] > 0

\* C3: every available count stays a count of free units: no reserve and no
\* reserve_many takes from a slot more units than it held when the call
\* started, so none leaves a slot with more units than it held.
C3_QuantityInvariant ==
  (op \in {"reserve", "reserve_many"}) =>
    /\ DOMAIN storage = DOMAIN pre
    /\ \A i \in DOMAIN pre :
         /\ Len(storage[i]) = Len(pre[i])
         /\ \A k \in 1..Len(pre[i]) : storage[i][k].available <= pre[i][k].available

\* The slot the recorded single-slot call resolves to in the store before it.
Found == ExactMatches(pre, arg.item_id, arg.from, arg.to) # {}
FoundAt == ExactSlot(pre, arg.item_id, arg.from, arg.to)
HeldBefore == pre[arg.item_id][FoundAt].available

\* What reserve owes an existing exact slot: Insufficient and no change when
\* the quantity exceeds its count, otherwise Ok and exactly that many less.
ReserveEffect ==
  IF arg.quantity > HeldBefore
  THEN res = "Insufficient" /\ storage = pre
  ELSE /\ res = "Ok"
       /\ storage[arg.item_id][FoundAt].available = HeldBefore - arg.quantity
       /\ SameExceptAvailable(storage, pre, arg.item_id, FoundAt)

\* C4 as claimed: reserve on any existing exact slot returns Insufficient and
\* changes nothing when qty > available, and otherwise returns Ok and takes
\* exactly qty.
C4_ReserveOnAnySlot ==
  (op = "reserve" /\ Found) => ReserveEffect

\* C4: reserve on an existing exact slot whose range is well formed
\* (start < end < 2400) returns Insufficient and changes nothing when
\* qty > available, and otherwise returns Ok and takes exactly qty.
C4_ReserveOnWellFormedSlot ==
  (op = "reserve" /\ Found /\ WellFormed(arg.from, arg.to)) => ReserveEffect

\* C4 witness: a reserve asked an existing well-formed slot for more than it held.
C4_Witness ==
  /\ op = "reserve"
  /\ Found
  /\ WellFormed(arg.from, arg.to)
  /\ arg.quantity > HeldBefore
  /\ res = "Insufficient"

\* C5 as claimed: reserve on an unknown item, or on a range that is no
\* slot's exact range, returns NotFound and changes nothing.
C5_MissingTargetIsNotFound ==
  (op = "reserve" /\ ~Found) => (res = "NotFound" /\ storage = pre)

\* C5: reserve on an unknown item, or on a range that is no slot's exact
\* range, fails and changes nothing (no slot is created, no count moves);
\* the error is NotFound when the range is well formed.
C5_MissingTargetFails ==
  (op = "reserve" /\ ~Found) =>
    /\ res \in {"NotFound", "InvalidTimeRange", "Internal"}
    /\ WellFormed(arg.from, arg.to) => res = "NotFound"
    /\ storage = pre

\* C5 witness: a reserve named a well-formed range of a known item that
\* holds slots, none with that exact range.
C5_Witness ==
  /\ op = "reserve"
  /\ arg.item_id \in DOMAIN pre
  /\ ~Found
  /\ WellFormed(arg.from, arg.to)
  /\ arg.quantity > 0
  /\ res = "NotFound"

\* C6: after reserve(q) on an existing slot holding a >= q, release(q) on the
\* same range leaves the slot holding a again.
C6_RoundTrip ==
  (op = "reserve" /\ Found /\ arg.quantity <= HeldBefore) =>
    \A out \in ReleaseOutcomes(storage, arg.item_id, arg.from, arg.to, arg.quantity) :
      /\ out.res = "Ok"
      /\ out.storage[arg.item_id][FoundAt].available = HeldBefore

\* C7: adjust on an existing exact slot returns Ok and leaves the slot
\* holding exactly q whatever it held, changing nothing else; adjust(q)
\* again leaves the store as the first left it.
C7_AdjustIsAbsoluteSet ==
  (op = "adjust" /\ Found) =>
    /\ res = "Ok"
    /\ storage[arg.item_id][FoundAt].available = arg.quantity
    /\ SameExceptAvailable(storage, pre, arg.item_id, FoundAt)
    /\ AdjustOutcome(storage, arg.item_id, arg.from, arg.to, arg.quantity)
         = Outcome("Ok", storage)

\* C7 witness: an adjust raised the count of a slot that held units.
C7_Witness ==
  /\ op = "adjust"
  /\ Found
  /\ res = "Ok"
  /\ arg.quantity > HeldBefore

\* A get_availability of the range just inserted, on the store the insert left.
ReadBack == GetAvailability(storage, arg.item_id, arg.from, arg.to)

\* The read reports the inserted slot, with the inserted quantity, as the
\* latest slot of that exact range.
ReadsInserted ==
  /\ ReadBack.res = "Ok"
  /\ Len(ReadBack.ret) > 0
  /\ ReadBack.ret[Len(ReadBack.ret)] =
       [item_id |-> arg.item_id, start |-> arg.from, end |-> arg.to,
        available |-> arg.quantity]

\* C8 as claimed: after insert_availability(item, start, end, q) with
\* start < end, get_availability(item, start, end) returns Ok and reports q
\* for the exact range.
C8_InsertThenReadAnyEnd ==
  (op = "insert_availability" /\ arg.from < arg.to) => ReadsInserted

\* C8: after insert_availability(item, start, end, q) with start < end < 2400,
\* get_availability(item, start, end) returns Ok and reports q for the exact
\* range.
C8_InsertThenRead ==
  (op = "insert_availability" /\ WellFormed(arg.from, arg.to)) => ReadsInserted

\* C8 witness: a well-formed slot with units was inserted for an item that
\* already held a slot.
C8_Witness ==
  /\ op = "insert_availability"
  /\ WellFormed(arg.from, arg.to)
  /\ arg.quantity > 0
  /\ Len(storage[arg.item_id]) = 2

\* The positions of the known item's slots lying inside [from, to], bounds
\* included.
Inside ==
  {k \in 1..Len(pre[arg.item_id]) :
     pre[arg.item_id][k].start >= arg.from /\ pre[arg.item_id][k].end <= arg.to}

\* The n-th of them in insertion order.
NthInside(n) ==
  CHOOSE k \in Inside : Cardinality({j \in Inside : j <= k}) = n

\* ret is exactly the slots inside [from, to], in insertion order, with
\* their current counts.
ReturnsInside ==
  /\ res = "Ok"
  /\ Len(ret) = Cardinality(Inside)
  /\ \A n \in 1..Len(ret) : ret[n] = pre[arg.item_id][NthInside(n)]

\* C9 as claimed: for a known item, get_availability returns exactly the
\* slots inside [from, to], in insertion order, and leaves the store unchanged.
C9_ContainmentAnyQuery ==
  (op = "get_availability" /\ arg.item_id \in DOMAIN pre) =>
    (ReturnsInside /\ storage = pre)

\* C9: get_availability leaves the store unchanged, and for a known item and
\* a well-formed query range (from < to < 2400) it returns exactly the slots
\* inside [from, to], in insertion order, with their current counts.
C9_Containment ==
  (op = "get_availability") =>
    /\ storage = pre
    /\ (arg.item_id \in DOMAIN pre /\ WellFormed(arg.from, arg.to)) => ReturnsInside

\* C9 witness: a query returned one slot of a known item and left another,
\* not inside the range, out.
C9_Witness ==
  /\ op = "get_availability"
  /\ arg.item_id \in DOMAIN pre
  /\ res = "Ok"
  /\ Len(ret) = 1
  /\ Len(pre[arg.item_id]) = 2
  /\ ret[1] = pre[arg.item_id][2]

\* C10 as claimed: get_availability on an item never inserted returns
\* NotFound, whatever the range.
C10_UnknownItemIsNotFound ==
  (op = "get_availability" /\ arg.item_id \notin DOMAIN pre) => res = "NotFound"

\* C10: get_availability on an item never inserted fails: with NotFound when
\* the range is well formed (from < to < 2400), with the validator's error
\* otherwise.
C10_UnknownItemFails ==
  (op = "get_availability" /\ arg.item_id \notin DOMAIN pre) =>
    /\ res \in {"NotFound", "InvalidTimeRange", "Internal"}
    /\ WellFormed(arg.from, arg.to) <=> res = "NotFound"
    /\ ret = <<>>

\* C10 witness: a well-formed query named an unknown item while another item
\* held slots.
C10_Witness ==
  /\ op = "get_availability"
  /\ arg.item_id \notin DOMAIN pre
  /\ DOMAIN pre # {}
  /\ WellFormed(arg.from, arg.to)
  /\ res = "NotFound"

MalformedRangeGiven ==
  \/ op \in {"reserve", "release", "adjust"} /\ arg.to <= arg.from
  \/ /\ op = "reserve_many"
     /\ \E j \in 1..Len(arg.slots) : arg.slots[j][2] <= arg.slots[j][1]

\* C12: every mutating call that takes a caller-supplied range (reserve,
\* release, adjust, each request of reserve_many) validates it first: given
\* a malformed range (end <= start) it returns InvalidTimeRange and changes
\* no slot, also when a slot with that exact range is stored.
C12_ValidationPrecedesMutation ==
  MalformedRangeGiven => (res = "InvalidTimeRange" /\ storage = pre)

\* C13: every call completes by returning Ok or an error kind, whatever the
\* arguments: none panics, the addition in release yields the true sum and
\* the subtractions in reserve and reserve_many never take a count below
\* zero (no wrap-around of the counter).
C13_NoPanicNoWrap ==
  /\ res \in {"Ok", "NotFound", "Insufficient", "InvalidTimeRange", "Internal"}
  /\ (op = "release" /\ Found) =>
       storage[arg.item_id][FoundAt].available = HeldBefore + arg.quantity
  /\ (op \in {"reserve", "reserve_many"}) =>
       \A i \in DOMAIN pre : \A k \in 1..Len(pre[i]) :
         storage[i][k].available <= pre[i][k].available

\* C14: release and adjust on an unknown item, or on a range that is no
\* slot's exact range, return NotFound and leave the store unchanged; on an
\* existing exact slot release returns Ok and adds exactly qty to available,
\* with no cap.
C14_ReleaseAdjustTargets ==
  /\ (op \in {"release", "adjust"} /\ ~Found) => (res = "NotFound" /\ storage = pre)
  /\ (op = "release" /\ Found) =>
       /\ res = "Ok"
       /\ storage[arg.item_id][FoundAt].available = HeldBefore + arg.quantity
       /\ SameExceptAvailable(storage, pre, arg.item_id, FoundAt)

\* What the first n requests of the recorded batch ask of slot k together.
RECURSIVE AskedUpTo(_, _)
AskedUpTo(k, n) ==
  IF n = 0 THEN 0
  ELSE AskedUpTo(k, n - 1) + (IF Target(n) = k THEN arg.slots[n][3] ELSE 0)

BatchSlots == 1..Len(pre[arg.item_id])
BatchHeld(k) == pre[arg.item_id][k].available

\* Two requests of the recorded batch name the same slot.
SharedTarget == \E i, j \in 1..Len(arg.slots) : i # j /\ Target(i) = Target(j)

\* Some slot is asked, over the whole batch, for more than it held.
OverAsked == \E k \in BatchSlots : AskedUpTo(k, Len(arg.slots)) > BatchHeld(k)

\* Every subtraction of the batch was applied, the counter wrapping around.
AllSubtracted ==
  \A k \in BatchSlots :
    storage[arg.item_id][k].available =
      (BatchHeld(k) + CounterMod * Len(arg.slots) - AskedUpTo(k, Len(arg.slots))) % CounterMod

\* The call stopped at the first subtraction that would go below zero,
\* the earlier ones applied.
StoppedAtUnderflow ==
  \E n \in 0..(Len(arg.slots) - 1) :
    /\ \A k \in BatchSlots :
         storage[arg.item_id][k].available = BatchHeld(k) - AskedUpTo(k, n)
    /\ arg.slots[n + 1][3] > BatchHeld(Target(n + 1)) - AskedUpTo(Target(n + 1), n)

RequestFails(j) ==
  \/ Target(j) = 0
  \/ arg.slots[j][3] > BatchHeld(Target(j))

FirstFailing ==
  CHOOSE j \in 1..Len(arg.slots) :
    RequestFails(j) /\ \A i \in 1..(j - 1) : ~RequestFails(i)

\* C16: reserve_many on an unknown item returns NotFound whatever the batch
\* (the empty one included); on a known item the error returned is that of
\* the first request, in the given order, that fails: NotFound if its exact
\* slot is absent, Insufficient if it asks for more than the slot holds,
\* whatever the later requests are; an empty batch on a known item returns
\* Ok and changes nothing.
C16_ErrorSelection ==
  (op = "reserve_many") =>
    /\ arg.item_id \notin DOMAIN pre => res = "NotFound"
    /\ (arg.item_id \in DOMAIN pre /\ \E j \in 1..Len(arg.slots) : RequestFails(j)) =>
         res = (IF Target(FirstFailing) = 0 THEN "NotFound" ELSE "Insufficient")
    /\ (arg.item_id \in DOMAIN pre /\ arg.slots = <<>>) => (res = "Ok" /\ storage = pre)

\* C16 witness: the first request asked for more than its slot held and the
\* second named an absent slot; the call returned the first one's error.
C16_Witness ==
  /\ op = "reserve_many"
  /\ arg.item_id \in DOMAIN pre
  /\ Len(arg.slots) = 2
  /\ Target(1) # 0
  /\ arg.slots[1][3] > BatchHeld(Target(1))
  /\ Target(2) = 0
  /\ res = "Insufficient"

\* st2 has the items of st1, each with the same number of slots in the same
\* order, every slot with its item_id, start and end.
SameSlots(st1, st2) ==
  /\ DOMAIN st1 = DOMAIN st2
  /\ \A i \in DOMAIN st1 :
       /\ Len(st1[i]) = Len(st2[i])
       /\ \A n \in 1..Len(st1[i]) :
            /\ st1[i][n].item_id = st2[i][n].item_id
            /\ st1[i][n].start = st2[i][n].start
            /\ st1[i][n].end = st2[i][n].end

\* C17: a successful reserve, release or adjust changes at most the available
\* field of one slot of the named item: item_id, start and end of every slot,
\* the number and order of the slots of every item and the available of every
\* other slot are as before the call; and no call other than
\* insert_availability (failed and batch calls included) adds or removes a
\* slot.
C17_SingleSlotFrame ==
  /\ (op \in {"reserve", "release", "adjust"} /\ res = "Ok") =>
       /\ arg.item_id \in DOMAIN pre
       /\ \E k \in 1..Len(pre[arg.item_id]) :
            SameExceptAvailable(pre, storage, arg.item_id, k)
  /\ (op \notin {"none", "insert_availability"}) => SameSlots(pre, storage)

\* C17 witness: a successful release on an item with two slots changed one
\* count.
C17_Witness ==
  /\ op = "release"
  /\ res = "Ok"
  /\ arg.item_id \in DOMAIN pre
  /\ Len(pre[arg.item_id]) = 2
  /\ storage # pre

\* Slot n of item i in st repeats the (start, end) of an earlier slot.
LaterDuplicate(st, i, n) ==
  \E m \in 1..(n - 1) : st[i][m].start = st[i][n].start /\ st[i][m].end = st[i][n].end

\* The slots of a sequence that carry the range (from, to).
WithRange(slots, from, to) ==
  {j \in 1..Len(slots) : slots[j].start = from /\ slots[j].end = to}

\* C18: insert_availability appends its slot even when the item already holds
\* one with the same (start, end); every other call (reserve, release, adjust,
\* reserve_many, on any outcome) leaves the available of every slot that
\* repeats an earlier slot's range as it was before the call, so no sequence
\* of calls changes it; and a successful get_availability whose query covers
\* a range returns as many slots of that range as the item holds.
C18_FirstInsertedWins ==
  /\ (op = "insert_availability" /\ arg.item_id \in DOMAIN pre) =>
       /\ Len(storage[arg.item_id]) = Len(pre[arg.item_id]) + 1
       /\ storage[arg.item_id][Len(storage[arg.item_id])] =
            AvailabilitySlot(arg.item_id, arg.from, arg.to, arg.quantity)
       /\ \A n \in 1..Len(pre[arg.item_id]) : storage[arg.item_id][n] = pre[arg.item_id][n]
  /\ (op \notin {"none", "insert_availability"}) =>
       \A i \in DOMAIN pre : \A n \in 1..Len(pre[i]) :
         LaterDuplicate(pre, i, n) => storage[i][n].available = pre[i][n].available
  /\ (op = "get_availability" /\ res = "Ok") =>
       \A n \in 1..Len(pre[arg.item_id]) :
         LET s == pre[arg.item_id][n]
         IN (s.start >= arg.from /\ s.end <= arg.to) =>
              Cardinality(WithRange(ret, s.start, s.end)) =
                Cardinality(WithRange(pre[arg.item_id], s.start, s.end))

\* C18 witness: the item held two slots of one range, a reserve on that range
\* succeeded and took its units from the first.
C18_Witness ==
  /\ op = "reserve"
  /\ res = "Ok"
  /\ arg.item_id \in DOMAIN pre
  /\ Len(pre[arg.item_id]) = 2
  /\ LaterDuplicate(pre, arg.item_id, 2)
  /\ pre[arg.item_id][1].start = arg.from
  /\ pre[arg.item_id][1].end = arg.to
  /\ storage[arg.item_id][1].available < pre[arg.item_id][1].available
  /\ storage[arg.item_id][2].available = pre[arg.item_id][2].available

\* C19: for a range that passes validate_time_range (start < end < 2400), a
\* batch of the single request (start, end, qty) and a reserve of
\* (start, end, qty) on the same store return the same result and leave the
\* same store: a recorded one-request reserve_many ended as reserve would
\* have, and a recorded reserve ended as the only outcome reserve_many of
\* that one request has.
C19_SingleBatchIsReserve ==
  /\ (op = "reserve_many" /\ Len(arg.slots) = 1
        /\ WellFormed(arg.slots[1][1], arg.slots[1][2])) =>
       Outcome(res, storage) =
         ReserveOutcome(pre, arg.item_id, arg.slots[1][1], arg.slots[1][2], arg.slots[1][3])
  /\ (op = "reserve" /\ WellFormed(arg.from, arg.to)) =>
       ReserveManyOutcomes(pre, arg.item_id, <<<<arg.from, arg.to, arg.quantity>>>>) =
         {Outcome(res, storage)}

\* C19 witness: a one-request batch on a well-formed range took units from
\* its slot.
C19_Witness ==
  /\ op = "reserve_many"
  /\ Len(arg.slots) = 1
  /\ WellFormed(arg.slots[1][1], arg.slots[1][2])
  /\ res = "Ok"
  /\ storage # pre

\* C20: a reserve_many commit subtracts more units than the slot holds only
\* when calls are not exclusive or the batch itself names a range twice: with
\* each call holding the store across both loops, no interleaving of callers
\* issuing reserve and duplicate-free reserve_many over-subtracts. (That the
\* over-subtraction is reachable once other calls may run between the two
\* loops is C20_Witness.)
C20_ExclusiveNoOverSubtraction ==
  \A c \in Callers : call[c].over => (~exclusive \/ call[c].dup)

\* C20 witness: without exclusive access, a duplicate-free batch committed
\* a subtraction larger than the count its slot then held.
C20_Witness ==
  /\ ~exclusive
  /\ \E c \in Callers : call[c].over /\ ~call[c].dup

\* Under exclusive access two callers' duplicate-free batches on the same
\* slot both ran to their end, and neither over-subtracted.
C20_ExclusiveCase ==
  /\ exclusive
  /\ \A c \in Callers :
       call[c].pc = "idle" /\ call[c].item_id = 1 /\ ~call[c].dup /\ ~call[c].over
  /\ \E c, d \in Callers : call[c].res = "Ok" /\ call[d].res = "Insufficient"

====
